---- MODULE Spec2Model ----
(***************************************************************************)
(* Model of the image-optimiser derivative generator.                      *)
(*                                                                         *)
(*   src/src/utils/imageProcessor.ts   ImageProcessor.processImage,        *)
(*                                     createResizedImage, canvasToBlob;   *)
(*                                     ImageQualityAnalyzer.analyzeImage   *)
(*                                     and the methods it calls            *)
(*   src/src/App.tsx                   handleProcess (the caller)          *)
(*   src/src/components/ProcessingOptions.tsx   the quality slider         *)
(*   src/src/constants/index.tsx       IMAGE_FORMATS, DEFAULT_BREAKPOINTS  *)
(*                                                                         *)
(* processImage is an async function: it runs in segments separated by its *)
(* awaits (the image load, every canvas.toBlob callback).  Each action of  *)
(* the model is one such segment, run to its next await or to its end.     *)
(***************************************************************************)
EXTENDS Integers, Sequences, FiniteSets, Bags, TLC

(***************************************************************************)
(* IEEE-754 binary64 arithmetic, as far as createResizedImage uses it:     *)
(* img.height / img.width, finalWidth * aspectRatio and Math.round, on     *)
(* non-negative integers below 2^16.  A positive double is kept as its     *)
(* 53-bit significand, written as five digits in base 2^13 (most           *)
(* significant first, the first digit 1), and the exponent of its leading  *)
(* bit, so that no intermediate value leaves the checker's 32-bit integers.*)
(***************************************************************************)
Limb == 2^13

RECURSIVE Pow2(_)
Pow2(n) == IF n = 0 THEN 1 ELSE 2 * Pow2(n - 1)

\* The number of binary digits of n >= 1.
RECURSIVE BitLength(_)
BitLength(n) == IF n <= 1 THEN 1 ELSE 1 + BitLength(n \div 2)

\* The exponent e with 2^e <= h/w < 2^(e+1), for h, w >= 1.
RECURSIVE ExpUp(_, _, _)
ExpUp(h, w, e) == IF 2 * w * Pow2(e) <= h THEN ExpUp(h, w, e + 1) ELSE e
RECURSIVE ExpDown(_, _, _)
ExpDown(h, w, k) == IF h * Pow2(k) >= w THEN k ELSE ExpDown(h, w, k + 1)
QuotientExp(h, w) == IF h >= w THEN ExpUp(h, w, 0) ELSE 0 - ExpDown(h, w, 1)

FZero == [kind |-> "zero", sig |-> <<0, 0, 0, 0, 0>>, exp |-> 0]
FNaN == [kind |-> "nan", sig |-> <<0, 0, 0, 0, 0>>, exp |-> 0]
FInfinity == [kind |-> "inf", sig |-> <<0, 0, 0, 0, 0>>, exp |-> 0]

\* Op on the value of e: an operand is evaluated once, before the operation
\* that uses it.
With(e, Op(_)) == CHOOSE out \in {Op(v) : v \in {e}} : TRUE

\* Round-to-nearest, ties-to-even: sig is the significand cut off after 53
\* bits, guard the first bit cut off, sticky whether any later one is set.
RoundToDouble(sig, exp, guard, sticky) ==
    With(<<sig, exp, guard, sticky>>, LAMBDA a :
    LET up == a[3] /\ (a[4] \/ a[1][5] % 2 = 1)
        s5 == a[1][5] + 1
        s4 == a[1][4] + (s5 \div Limb)
        s3 == a[1][3] + (s4 \div Limb)
        s2 == a[1][2] + (s3 \div Limb)
        s1 == a[1][1] + (s2 \div Limb)
    IN  IF ~up THEN [kind |-> "normal", sig |-> a[1], exp |-> a[2]]
        ELSE IF s1 = 2
        THEN [kind |-> "normal", sig |-> <<1, 0, 0, 0, 0>>, exp |-> a[2] + 1]
        ELSE [kind |-> "normal",
              sig  |-> <<s1, s2 % Limb, s3 % Limb, s4 % Limb, s5 % Limb>>,
              exp  |-> a[2]])

\* The double nearest to h / w (h, w >= 0), by long division; h / 0 is
\* Infinity and 0 / 0 is NaN.
FDiv(h, w) ==
    IF w = 0 THEN (IF h = 0 THEN FNaN ELSE FInfinity)
    ELSE IF h = 0 THEN FZero
    ELSE LET e   == QuotientExp(h, w)
             num == IF e >= 0 THEN h ELSE h * Pow2(0 - e)
             den == IF e >= 0 THEN w * Pow2(e) ELSE w
             r0  == num - den
             r1  == (r0 * Limb) % den
             r2  == (r1 * Limb) % den
             r3  == (r2 * Limb) % den
             r4  == (r3 * Limb) % den
             d5  == (r4 * Limb) \div den
             r5  == (r4 * Limb) % den
         IN  RoundToDouble(<<1, (r0 * Limb) \div den, (r1 * Limb) \div den,
                             (r2 * Limb) \div den, (r3 * Limb) \div den>>,
                           e, d5 >= Limb \div 2,
                           d5 % (Limb \div 2) # 0 \/ r5 > 0)

\* The double nearest to k * x, for an integer 0 <= k < 2^16 and a double x;
\* 0 * Infinity is NaN.
FMulInt(k, x) ==
    With(x, LAMBDA v :
    IF v.kind = "nan" \/ (v.kind = "inf" /\ k = 0) THEN FNaN
    ELSE IF v.kind = "inf" THEN FInfinity
    ELSE IF k = 0 \/ v.kind = "zero" THEN FZero
    ELSE LET t5 == v.sig[5] * k
             t4 == v.sig[4] * k + (t5 \div Limb)
             t3 == v.sig[3] * k + (t4 \div Limb)
             t2 == v.sig[2] * k + (t3 \div Limb)
             t1 == v.sig[1] * k + (t2 \div Limb)
             \* the product has s bits more than a significand holds
             s  == BitLength(t1) - 1
             d  == Pow2(s)
             n2 == (t1 % d) * Limb + (t2 % Limb)
             n3 == (n2 % d) * Limb + (t3 % Limb)
             n4 == (n3 % d) * Limb + (t4 % Limb)
             n5 == (n4 % d) * Limb + (t5 % Limb)
             r  == n5 % d
         IN  RoundToDouble(<<t1 \div d, n2 \div d, n3 \div d, n4 \div d, n5 \div d>>,
                           v.exp + s,
                           s > 0 /\ r >= d \div 2,
                           s > 1 /\ r % (d \div 2) # 0))

\* Math.round: the nearest integer, a tie going up (results below 2^25);
\* NaN and Infinity are returned as they are.
MathRound(x) ==
    IF x.kind \in {"nan", "inf"} THEN x
    ELSE IF x.kind = "zero" \/ x.exp < 0 - 1 THEN 0
    ELSE LET shift == 51 - x.exp
             drop  == shift \div 13
             top   == IF drop = 4 THEN x.sig[1]
                      ELSE IF drop = 3 THEN x.sig[1] * Limb + x.sig[2]
                      ELSE (x.sig[1] * Limb + x.sig[2]) * Limb + x.sig[3]
             t     == top \div Pow2(shift % 13)
         IN  (t \div 2) + (t % 2)

\* x < y and x <= y for doubles x, y >= 0; false when either is NaN.
FLess(x, y) ==
    IF x.kind = "nan" \/ y.kind = "nan" \/ y.kind = "zero" THEN FALSE
    ELSE IF x.kind = "inf" THEN FALSE
    ELSE IF y.kind = "inf" THEN TRUE
    ELSE IF x.kind = "zero" THEN TRUE
    ELSE \/ x.exp < y.exp
         \/ /\ x.exp = y.exp
            /\ \E i \in 1..5 : /\ x.sig[i] < y.sig[i]
                                /\ \A j \in 1..(i - 1) : x.sig[j] = y.sig[j]

FLeq(x, y) ==
    /\ x.kind # "nan"
    /\ y.kind # "nan"
    /\ ~FLess(y, x)

\* The double of a whole number 0 <= n < 2^16.
FInt(n) == FDiv(n, 1)

(***************************************************************************)
(* The arithmetic of ImageQualityAnalyzer: sums, differences, products and *)
(* quotients of doubles.  An exact intermediate result is a whole number   *)
(* written in base 2^13 (a sequence of digits, most significant first)     *)
(* times a power of two; Normalize rounds it to the nearest double.        *)
(***************************************************************************)
\* The digits of the number whose (unnormalised, possibly negative) digits
\* are d[1..i], plus the carry c.
RECURSIVE Propagate(_, _, _)
Propagate(d, i, c) ==
    IF i = 0
    THEN IF c = 0 THEN <<>>
         ELSE With(c, LAMBDA t : Propagate(d, 0, t \div Limb) \o <<t % Limb>>)
    ELSE With(d[i] + c, LAMBDA t : Propagate(d, i - 1, t \div Limb) \o <<t % Limb>>)

Zeros(n) == [i \in 1..n |-> 0]

\* digits * 2^s
ShiftLeft(digits, s) ==
    With(digits \o <<>>, LAMBDA v :
    With([i \in 1..Len(v) |-> v[i] * 2^(s % 13)] \o Zeros(s \div 13), LAMBDA d :
    Propagate(d, Len(d), 0)))

\* The double nearest to digits * 2^scale (+ a positive amount below one
\* unit of the last digit when sticky), ties to even.
Normalize(digits, scale, sticky) ==
    With(digits \o <<>>, LAMBDA v :
    LET nz == {i \in 1..Len(v) : v[i] # 0} IN
    IF nz = {} THEN FZero
    ELSE LET top  == CHOOSE i \in nz : \A j \in nz : i <= j
             bits == 13 * (Len(v) - top) + BitLength(v[top])
         IN  \* the leading bit moved to the lowest bit of a digit
             With(ShiftLeft(SubSeq(v, top, Len(v)), (14 - BitLength(v[top])) % 13),
                  LAMBDA m :
             LET lead == CHOOSE i \in 1..Len(m) : m[i] # 0 /\ \A j \in 1..(i - 1) : m[j] = 0
                 at(i) == IF lead + i - 1 <= Len(m) THEN m[lead + i - 1] ELSE 0
             IN  RoundToDouble(<<at(1), at(2), at(3), at(4), at(5)>>,
                               scale + bits - 1,
                               at(6) >= Limb \div 2,
                               \/ sticky
                               \/ at(6) % (Limb \div 2) # 0
                               \/ \E i \in (lead + 6)..Len(m) : m[i] # 0)))

\* x + y for doubles x, y >= 0.
FAdd(x, y) ==
    With(<<x, y>>, LAMBDA v :
    IF v[1].kind = "zero" THEN v[2]
    ELSE IF v[2].kind = "zero" THEN v[1]
    ELSE LET a == IF v[1].exp >= v[2].exp THEN v[1] ELSE v[2]
             b == IF v[1].exp >= v[2].exp THEN v[2] ELSE v[1]
             d == a.exp - b.exp
         IN  IF d > 64
             THEN Normalize(a.sig \o <<0>>, a.exp - 52 - 13, TRUE)
             ELSE With(ShiftLeft(a.sig, d), LAMBDA big :
                  LET pad == Zeros(Len(big) - 5) \o b.sig
                  IN  Normalize(Propagate([i \in 1..Len(big) |-> big[i] + pad[i]] \o <<>>,
                                          Len(big), 0),
                                b.exp - 52, FALSE)))

\* x - y for doubles x >= y >= 0.
FSub(x, y) ==
    With(<<x, y>>, LAMBDA v :
    IF v[2].kind = "zero" THEN v[1]
    ELSE LET d == v[1].exp - v[2].exp IN
         IF d > 64
         THEN With(ShiftLeft(v[1].sig, 26), LAMBDA big :
              Normalize(Propagate([i \in 1..Len(big) |->
                                      IF i = Len(big) THEN big[i] - 1 ELSE big[i]] \o <<>>,
                                  Len(big), 0),
                        v[1].exp - 52 - 26, TRUE))
         ELSE With(ShiftLeft(v[1].sig, d), LAMBDA big :
              LET pad == Zeros(Len(big) - 5) \o v[2].sig
              IN  Normalize(Propagate([i \in 1..Len(big) |-> big[i] - pad[i]] \o <<>>,
                                      Len(big), 0),
                            v[2].exp - 52, FALSE)))

\* x * y for doubles x, y >= 0.
FMul(x, y) ==
    With(<<x, y>>, LAMBDA v :
    IF v[1].kind = "zero" \/ v[2].kind = "zero" THEN FZero
    ELSE LET col(k) == LET is == {i \in 1..5 : k + 1 - i \in 1..5}
                           term[i \in 1..5] ==
                               IF i \in is THEN v[1].sig[i] * v[2].sig[k + 1 - i] ELSE 0
                       IN  term[1] + term[2] + term[3] + term[4] + term[5]
         IN  Normalize(Propagate([k \in 1..9 |-> col(k)] \o <<>>, 9, 0),
                       (v[1].exp - 52) + (v[2].exp - 52), FALSE))

\* The digits of digits[i..] (after remainder r) divided by n, the remainder
\* of the whole division as the last element.
RECURSIVE LongDivision(_, _, _, _)
LongDivision(digits, i, r, n) ==
    IF i > Len(digits) THEN <<r>>
    ELSE With(r * Limb + digits[i], LAMBDA t :
         <<t \div n>> \o LongDivision(digits, i + 1, t % n, n))

\* x / n for a double x >= 0 and a whole number 1 <= n < 2^17.
FDivInt(x, n) ==
    With(x, LAMBDA v :
    IF v.kind = "zero" THEN FZero
    ELSE With(LongDivision(v.sig \o Zeros(3), 1, 0, n), LAMBDA q :
         Normalize(SubSeq(q, 1, 8), v.exp - 52 - 39, q[9] # 0)))

Min(a, b) == IF a <= b THEN a ELSE b

(***************************************************************************)
(* Program constants.                                                      *)
(***************************************************************************)
IMAGE_FORMATS ==
    << [name |-> "AVIF", extension |-> "avif", mimeType |-> "image/avif"],
       [name |-> "WebP", extension |-> "webp", mimeType |-> "image/webp"],
       [name |-> "JPEG", extension |-> "jpg",  mimeType |-> "image/jpeg"],
       [name |-> "PNG",  extension |-> "png",  mimeType |-> "image/png"] >>

\* The description field of a breakpoint is display text no handler reads.
DEFAULT_BREAKPOINTS ==
    << [name |-> "4K",           width |-> 3840],
       [name |-> "2K",           width |-> 2560],
       [name |-> "1080p",        width |-> 1920],
       [name |-> "Tablet",       width |-> 1024],
       [name |-> "Mobile",       width |-> 768],
       [name |-> "Small Mobile", width |-> 480] >>

(***************************************************************************)
(* Bounds of the model: the inputs handed to one handleProcess call.       *)
(***************************************************************************)
MaxFormats == 2
MaxBreakpoints == 2

\* options.formats: formats unique by extension, in any order (the panel
\* appends a format that is toggled on).
FormatLists ==
    UNION {{[i \in 1..n |-> IMAGE_FORMATS[s[i]]] :
               s \in {t \in [1..n -> 1..Len(IMAGE_FORMATS)] :
                         \A i, j \in 1..n : i # j => t[i] # t[j]}} :
           n \in 0..MaxFormats}

\* options.breakpoints: breakpoints by width descending (the panel keeps
\* them sorted), i.e. sublists of DEFAULT_BREAKPOINTS.
BreakpointLists ==
    UNION {{[i \in 1..n |-> DEFAULT_BREAKPOINTS[s[i]]] :
               s \in {t \in [1..n -> 1..Len(DEFAULT_BREAKPOINTS)] :
                         \A i \in 1..(n - 1) : t[i] < t[i + 1]}} :
           n \in 0..MaxBreakpoints}

\* options.quality: the slider's range is 10..100; the default is tried (the
\* loops never read it, canvasToBlob passes it on).
QualityValues == {85}

OptionValues ==
    [lossless : BOOLEAN, quality : QualityValues, formats : FormatLists,
     breakpoints : BreakpointLists, includeRetina : BOOLEAN]

\* The decoded sizes of the source files tried: a 4K photo, a square below
\* the 1080p breakpoint, one whose 480px height is an exact half (122.5),
\* and a one-pixel-high strip.
SourceSizes ==
    { [width |-> 3840, height |-> 2160],
      [width |-> 1000, height |-> 1000],
      [width |-> 576,  height |-> 147],
      [width |-> 7680, height |-> 1] }

\* A value that may be absent (null): no element, or the one element.
None == <<>>
Some(v) == <<v>>

(***************************************************************************)
(* ImageProcessor.processImage: the loop over breakpoints and formats.     *)
(* A task is one createResizedImage call: breakpoint b and format f (as    *)
(* indexes into the options' lists), standard or retina.                   *)
(***************************************************************************)
Done == [b |-> 0, f |-> 0, retina |-> FALSE]

\* Mutant: the retina derivatives are left out of the total.
TotalStepsWithoutRetina(o) ==
    Len(o.breakpoints) * Len(o.formats)

TotalSteps(o) ==
    Len(o.breakpoints) * Len(o.formats) * (IF o.includeRetina THEN 2 ELSE 1)

\* Mutant: the lossless skip of the jpg format is missing.
RECURSIVE NextPairWithoutSkip(_, _, _)
NextPairWithoutSkip(o, b, f) ==
    IF b > Len(o.breakpoints) THEN Done
    ELSE IF f > Len(o.formats) THEN NextPairWithoutSkip(o, b + 1, 1)
    ELSE [b |-> b, f |-> f, retina |-> FALSE]

\* The next (breakpoint, format) pair at or after (b, f) that the loops do
\* not skip, as its standard task; Done when the loops are over.
RECURSIVE NextPair(_, _, _)
NextPair(o, b, f) ==
    IF b > Len(o.breakpoints) THEN Done
    ELSE IF f > Len(o.formats) THEN NextPair(o, b + 1, 1)
    ELSE IF o.lossless /\ o.formats[f].extension = "jpg" THEN NextPair(o, b, f + 1)
    ELSE [b |-> b, f |-> f, retina |-> FALSE]

\* Mutant: the retina branch is never taken.
AfterTaskWithoutRetina(o, t) ==
    NextPair(o, t.b, t.f + 1)

\* The task that follows task t.
AfterTask(o, t) ==
    IF ~t.retina /\ o.includeRetina
    THEN [b |-> t.b, f |-> t.f, retina |-> TRUE]
    ELSE NextPair(o, t.b, t.f + 1)

TargetWidth(o, t) ==
    IF t.retina THEN o.breakpoints[t.b].width * 2 ELSE o.breakpoints[t.b].width

\* Mutant: the retina derivative gets the suffix of the standard one.
SizeSuffixWithoutRetina(o, t) == ToString(o.breakpoints[t.b].width)

\* Mutant: the retina suffix is built from the doubled target width.
SizeSuffixFromTarget(o, t) ==
    IF t.retina THEN ToString(o.breakpoints[t.b].width * 2) \o "@2x"
    ELSE ToString(o.breakpoints[t.b].width)

SizeSuffix(o, t) ==
    IF t.retina THEN ToString(o.breakpoints[t.b].width) \o "@2x"
    ELSE ToString(o.breakpoints[t.b].width)

CurrentTask(o, t) ==
    IF t.retina
    THEN "Processing " \o o.breakpoints[t.b].name \o " " \o o.formats[t.f].name \o " @2x"
    ELSE "Processing " \o o.breakpoints[t.b].name \o " " \o o.formats[t.f].name

\* currentStep++
IncrementStep(step) == step + 1

\* Mutant: the event is built before the step is counted.
ProgressEventBeforeCount(step, total, o, t) ==
    [current |-> step - 1, total |-> total, currentTask |-> CurrentTask(o, t)]

\* The ProcessingProgress record handed to onProgress after task t.
ProgressEvent(step, total, o, t) ==
    [current |-> step, total |-> total, currentTask |-> CurrentTask(o, t)]

(***************************************************************************)
(* ImageProcessor.createResizedImage and canvasToBlob.                     *)
(***************************************************************************)
AspectRatio(im) == FDiv(im.height, im.width)

FinalWidth(im, targetWidth) == Min(targetWidth, im.width)

FinalHeight(im, targetWidth) ==
    MathRound(FMulInt(FinalWidth(im, targetWidth), AspectRatio(im)))

\* this.canvas once createResizedImage has set its width and height.  A
\* canvas dimension is an unsigned long: assigning NaN sets it to 0.
SizedCanvas(im, targetWidth) ==
    LET product == FMulInt(FinalWidth(im, targetWidth), AspectRatio(im))
    IN  [width  |-> FinalWidth(im, targetWidth),
         height |-> IF product.kind = "nan" THEN 0 ELSE MathRound(product)]

\* Mutant: a canvas with pixels across is encoded whatever its height.
HasPixelsAcross(c) == c.width >= 1

\* Whether the canvas bitmap has pixels.  toBlob hands its callback null
\* when it has none (HTML standard, the toBlob steps).
HasPixels(c) == c.width >= 1 /\ c.height >= 1

\* Mutant: only png takes the lossless branch.
CanvasToBlobIgnoringLossless(format, o) ==
    IF format.extension = "png"
    THEN [type |-> "image/png", quality |-> None]
    ELSE [type |-> format.mimeType, quality |-> Some(FDiv(o.quality, 100))]

\* Mutant: the slider's percentage is handed on as it is.
CanvasToBlobPercentage(format, o) ==
    IF format.extension = "png" \/ o.lossless
    THEN [type |-> "image/png", quality |-> None]
    ELSE [type |-> format.mimeType, quality |-> Some(FDiv(o.quality, 1))]

\* The canvas.toBlob call canvasToBlob makes: the media type asked for and
\* the quality argument (none on the lossless branch).
CanvasToBlob(format, o) ==
    IF format.extension = "png" \/ o.lossless
    THEN [type |-> "image/png", quality |-> None]
    ELSE [type |-> format.mimeType, quality |-> Some(FDiv(o.quality, 100))]

\* The record createResizedImage returns once the blob has arrived.  The
\* blob is kept as the call that made it; its byte size is the encoder's.
CreateResizedImage(im, targetWidth, format, o, sizeSuffix) ==
    [name       |-> "image-" \o sizeSuffix \o "." \o format.extension,
     blob       |-> CanvasToBlob(format, o),
     dimensions |-> [width  |-> FinalWidth(im, targetWidth),
                     height |-> FinalHeight(im, targetWidth)]]

\* The message of the error createResizedImage throws (its catch block).
ResizeError(sizeSuffix, cause) ==
    "Failed to create " \o sizeSuffix \o " image: " \o cause

\* What the synchronous part of createResizedImage can do: run through to
\* the pending toBlob callback, or throw from drawImage or from toBlob.
SyncOutcomes == {"ok", "drawImage throws", "toBlob throws"}

SyncCause(sync) ==
    IF sync = "drawImage throws" THEN "drawImage error"
    ELSE "Canvas to blob conversion failed: toBlob error"

(***************************************************************************)
(* ImageQualityAnalyzer.                                                   *)
(*                                                                         *)
(* A colour is <<r, g, b>>, each 0..255.  A pixel buffer (an image's       *)
(* pixels, or the data of an ImageData) is written as the pattern it       *)
(* holds, so that a buffer of any size has a value:                        *)
(*   flat          every pixel a                                           *)
(*   checkerboard  one-pixel cells, a where x + y is even, b elsewhere     *)
(*   halves        a in the left half of every row, b in the right half    *)
(*   dot           a everywhere but for one pixel, number at, which is b   *)
(* Pixel p of a buffer of width w (counted from 0, row by row) is the      *)
(* pixel at x = p % w, y = p \div w; data[4p], data[4p + 1], data[4p + 2]  *)
(* are its r, g and b.                                                     *)
(***************************************************************************)
ColourAt(pixels, width, p) ==
    LET x == p % width
        y == p \div width
    IN  IF pixels.kind = "flat" THEN pixels.a
        ELSE IF pixels.kind = "checkerboard"
        THEN IF (x + y) % 2 = 0 THEN pixels.a ELSE pixels.b
        ELSE IF pixels.kind = "halves"
        THEN IF 2 * x < width THEN pixels.a ELSE pixels.b
        ELSE IF p = pixels.at THEN pixels.b ELSE pixels.a

RGB(imageData, p) == ColourAt(imageData.pixels, imageData.width, p)

\* Math.min(imageElement.width, 800) and Math.min(imageElement.height, 600)
SampleWidth(imageElement) == Min(imageElement.width, 800)
SampleHeight(imageElement) == Min(imageElement.height, 600)

\* What getImageData returns after drawImage, for an image that fits the
\* sample size and so is drawn pixel for pixel.
GetImageData(imageElement) ==
    [width  |-> SampleWidth(imageElement),
     height |-> SampleHeight(imageElement),
     pixels |-> imageElement.pixels]

\* 0.299 * r + 0.587 * g + 0.114 * b
Luminance(c) ==
    FAdd(FAdd(FMulInt(c[1], FDiv(299, 1000)), FMulInt(c[2], FDiv(587, 1000))),
         FMulInt(c[3], FDiv(114, 1000)))

\* A double with its sign; zero is kept without one.
Signed(neg, abs) ==
    With(abs, LAMBDA v : [neg |-> neg /\ v.kind # "zero", abs |-> v])

SZero == Signed(FALSE, FZero)
SNaN == Signed(FALSE, FNaN)

SNegate(a) == With(a, LAMBDA v : Signed(~v.neg, v.abs))

SAdd(a, b) ==
    With(<<a, b>>, LAMBDA v :
    IF v[1].neg = v[2].neg THEN Signed(v[1].neg, FAdd(v[1].abs, v[2].abs))
    ELSE IF FLess(v[1].abs, v[2].abs) THEN Signed(v[2].neg, FSub(v[2].abs, v[1].abs))
    ELSE IF FLess(v[2].abs, v[1].abs) THEN Signed(v[1].neg, FSub(v[1].abs, v[2].abs))
    ELSE SZero)

\* gray * k for a double gray >= 0 and a whole number k
STimes(gray, k) ==
    IF k < 0 THEN Signed(TRUE, FMulInt(0 - k, gray))
    ELSE Signed(FALSE, FMulInt(k, gray))

\* sum / n, for the length n of the list summed (0 / 0 is NaN)
SDivInt(a, n) ==
    IF n = 0 THEN SNaN ELSE With(a, LAMBDA v : Signed(v.neg, FDivInt(v.abs, n)))

kernel == << <<0, 0 - 1, 0>>, <<0 - 1, 4, 0 - 1>>, <<0, 0 - 1, 0>> >>

\* The inner two loops of the convolution at (x, y), after n of their 9
\* steps (ky = 0..2, and for each kx = 0..2).  gray is kept as a sequence:
\* gray[p + 1] is the code's gray[p].
RECURSIVE KernelSum(_, _, _, _, _)
KernelSum(gray, width, x, y, n) ==
    IF n = 0 THEN SZero
    ELSE LET ky == (n - 1) \div 3
             kx == (n - 1) % 3
             pixelIndex == (y + ky - 1) * width + (x + kx - 1)
         IN  SAdd(KernelSum(gray, width, x, y, n - 1),
                  STimes(gray[pixelIndex + 1], kernel[ky + 1][kx + 1]))

\* laplacian.reduce((sum, val) => sum + val, 0) over the first n values
RECURSIVE SumOf(_, _)
SumOf(laplacian, n) ==
    IF n = 0 THEN SZero ELSE SAdd(SumOf(laplacian, n - 1), laplacian[n])

\* laplacian.reduce((sum, val) => sum + Math.pow(val - mean, 2), 0) over
\* the first n values
RECURSIVE SquaresOf(_, _, _)
SquaresOf(laplacian, mean, n) ==
    IF n = 0 THEN FZero
    ELSE With(SAdd(laplacian[n], SNegate(mean)), LAMBDA dev :
         FAdd(SquaresOf(laplacian, mean, n - 1), FMul(dev.abs, dev.abs)))

CalculateLaplacianVariance(imageData) ==
    LET width  == imageData.width
        height == imageData.height
        \* the border pixels are skipped
        cols   == IF width > 2 THEN width - 2 ELSE 0
        rows   == IF height > 2 THEN height - 2 ELSE 0
        length == rows * cols
    IN  With([p \in 1..(width * height) |-> Luminance(RGB(imageData, p - 1))] \o <<>>,
             LAMBDA gray :
        With([n \in 1..length |->
                 KernelSum(gray, width, 1 + ((n - 1) % cols),
                           1 + ((n - 1) \div cols), 9)] \o <<>>,
             LAMBDA laplacian :
        With(SDivInt(SumOf(laplacian, length), length), LAMBDA mean :
        IF length = 0 THEN FNaN
        ELSE FDivInt(SquaresOf(laplacian, mean, length), length))))

\* Mutant: the boundary scores go to the higher class.
ClassifyBlurLevelInclusive(sharpness) ==
    IF FLeq(FInt(1000), sharpness) THEN "sharp"
    ELSE IF FLeq(FInt(500), sharpness) THEN "moderate"
    ELSE IF FLeq(FInt(100), sharpness) THEN "blurry"
    ELSE "very-blurry"

ClassifyBlurLevel(sharpness) ==
    IF FLess(FInt(1000), sharpness) THEN "sharp"
    ELSE IF FLess(FInt(500), sharpness) THEN "moderate"
    ELSE IF FLess(FInt(100), sharpness) THEN "blurry"
    ELSE "very-blurry"

\* Every 10th pixel of the data (i = 0, 40, 80, ... below data.length).
SampledPixels(imageData) ==
    {10 * k : k \in 0..((imageData.width * imageData.height - 1) \div 10)}

\* max - min of the luminances sampled; the luminances are taken colour by
\* colour, a buffer holding few colours.
CalculateContrast(imageData) ==
    With({Luminance(c) : c \in {RGB(imageData, p) : p \in SampledPixels(imageData)}},
         LAMBDA luminances :
    LET min == CHOOSE l \in luminances : \A m \in luminances : FLeq(l, m)
        max == CHOOSE l \in luminances : \A m \in luminances : FLeq(m, l)
    IN  FSub(max, min))

\* Mutant: the confidence is returned as a percentage.
CalculateConfidencePercent(imageElement, imageData) ==
    LET pixelCount == imageElement.width * imageElement.height
        sized == IF pixelCount > 2000000 THEN FAdd(FDiv(1, 2), FDiv(3, 10))
                 ELSE IF pixelCount > 500000 THEN FAdd(FDiv(1, 2), FDiv(2, 10))
                 ELSE IF pixelCount < 100000 THEN FSub(FDiv(1, 2), FDiv(2, 10))
                 ELSE FDiv(1, 2)
    IN  With(CalculateContrast(imageData), LAMBDA contrast :
        With(IF FLess(FInt(50), contrast) THEN FAdd(sized, FDiv(2, 10))
             ELSE IF FLess(contrast, FInt(20)) THEN FSub(sized, FDiv(1, 10))
             ELSE sized, LAMBDA confidence :
        With(IF FLess(FInt(1), confidence) THEN FInt(1) ELSE confidence, LAMBDA atMost1 :
        FMulInt(100, IF FLess(atMost1, FZero) THEN FZero ELSE atMost1))))

\* Mutant: the pixels counted are those of the sample.
CalculateConfidenceOfSample(imageElement, imageData) ==
    LET pixelCount == imageData.width * imageData.height
        sized == IF pixelCount > 2000000 THEN FAdd(FDiv(1, 2), FDiv(3, 10))
                 ELSE IF pixelCount > 500000 THEN FAdd(FDiv(1, 2), FDiv(2, 10))
                 ELSE IF pixelCount < 100000 THEN FSub(FDiv(1, 2), FDiv(2, 10))
                 ELSE FDiv(1, 2)
    IN  With(CalculateContrast(imageData), LAMBDA contrast :
        With(IF FLess(FInt(50), contrast) THEN FAdd(sized, FDiv(2, 10))
             ELSE IF FLess(contrast, FInt(20)) THEN FSub(sized, FDiv(1, 10))
             ELSE sized, LAMBDA confidence :
        With(IF FLess(FInt(1), confidence) THEN FInt(1) ELSE confidence, LAMBDA atMost1 :
        IF FLess(atMost1, FZero) THEN FZero ELSE atMost1)))

\* calculateConfidence; the sums stay above 0, so confidence -= d is FSub.
CalculateConfidence(imageElement, imageData) ==
    LET pixelCount == imageElement.width * imageElement.height
        sized == IF pixelCount > 2000000 THEN FAdd(FDiv(1, 2), FDiv(3, 10))
                 ELSE IF pixelCount > 500000 THEN FAdd(FDiv(1, 2), FDiv(2, 10))
                 ELSE IF pixelCount < 100000 THEN FSub(FDiv(1, 2), FDiv(2, 10))
                 ELSE FDiv(1, 2)
    IN  With(CalculateContrast(imageData), LAMBDA contrast :
        With(IF FLess(FInt(50), contrast) THEN FAdd(sized, FDiv(2, 10))
             ELSE IF FLess(contrast, FInt(20)) THEN FSub(sized, FDiv(1, 10))
             ELSE sized, LAMBDA confidence :
        With(IF FLess(FInt(1), confidence) THEN FInt(1) ELSE confidence, LAMBDA atMost1 :
        IF FLess(atMost1, FZero) THEN FZero ELSE atMost1)))

\* analyzeImage, imageData being what getImageData returned.
AnalyzeImage(imageElement, imageData) ==
    With(CalculateLaplacianVariance(imageData), LAMBDA sharpness :
         [sharpness  |-> sharpness,
          blurLevel  |-> ClassifyBlurLevel(sharpness),
          confidence |-> CalculateConfidence(imageElement, imageData)])

(***************************************************************************)
(* The options panel (ProcessingOptions.tsx).  Each operator gives the     *)
(* options value a handler hands to onChange (App's setOptions), or the    *)
(* options as they are when the handler returns without calling it.        *)
(***************************************************************************)
\* Mutant: the format is pushed whether it is selected or not.
HandleFormatToggleAlwaysAdds(o, formatIndex) ==
    [o EXCEPT !.formats = Append(o.formats, IMAGE_FORMATS[formatIndex])]

HandleFormatToggle(o, formatIndex) ==
    LET extension == IMAGE_FORMATS[formatIndex].extension IN
    IF \E i \in 1..Len(o.formats) : o.formats[i].extension = extension
    THEN [o EXCEPT !.formats = SelectSeq(o.formats, LAMBDA f : f.extension # extension)]
    ELSE [o EXCEPT !.formats = Append(o.formats, IMAGE_FORMATS[formatIndex])]

\* The format button is disabled for jpg while lossless is set.
FormatDisabled(o, formatIndex) ==
    o.lossless /\ IMAGE_FORMATS[formatIndex].extension = "jpg"

RequiredWidth(o, bp) == IF o.includeRetina THEN bp.width * 2 ELSE bp.width

\* The breakpoint button is disabled, and handleBreakpointToggle returns
\* at once, for a breakpoint the image is too narrow for.
BreakpointDisabled(o, dimensions, bp) ==
    dimensions # None /\ RequiredWidth(o, bp) > dimensions[1].width

\* bp put into a list that is in descending order of width, after the
\* entries that are not narrower (the sort is stable).
RECURSIVE InsertByWidth(_, _)
InsertByWidth(list, bp) ==
    IF list = <<>> THEN <<bp>>
    ELSE IF Head(list).width >= bp.width
    THEN <<Head(list)>> \o InsertByWidth(Tail(list), bp)
    ELSE <<bp>> \o list

\* newBreakpoints.sort((a, b) => b.width - a.width)
RECURSIVE SortByWidthDescending(_)
SortByWidthDescending(list) ==
    IF list = <<>> THEN <<>>
    ELSE InsertByWidth(SortByWidthDescending(SubSeq(list, 1, Len(list) - 1)),
                       list[Len(list)])

\* Mutant: the breakpoint added is left at the end of the list.
HandleBreakpointToggleUnsorted(o, dimensions, breakpointIndex) ==
    LET breakpoint == DEFAULT_BREAKPOINTS[breakpointIndex] IN
    IF BreakpointDisabled(o, dimensions, breakpoint) THEN o
    ELSE IF \E i \in 1..Len(o.breakpoints) : o.breakpoints[i].width = breakpoint.width
    THEN [o EXCEPT !.breakpoints =
              SelectSeq(o.breakpoints, LAMBDA b : b.width # breakpoint.width)]
    ELSE [o EXCEPT !.breakpoints = Append(o.breakpoints, breakpoint)]

HandleBreakpointToggle(o, dimensions, breakpointIndex) ==
    LET breakpoint == DEFAULT_BREAKPOINTS[breakpointIndex] IN
    IF BreakpointDisabled(o, dimensions, breakpoint) THEN o
    ELSE IF \E i \in 1..Len(o.breakpoints) : o.breakpoints[i].width = breakpoint.width
    THEN [o EXCEPT !.breakpoints =
              SelectSeq(o.breakpoints, LAMBDA b : b.width # breakpoint.width)]
    ELSE [o EXCEPT !.breakpoints =
              SortByWidthDescending(Append(o.breakpoints, breakpoint))]

\* isRetinaDisabled: the retina checkbox is disabled and shown unchecked.
IsRetinaDisabled(dimensions) ==
    dimensions # None /\ dimensions[1].width < 960

\* Mutant: the effect compares the breakpoint's own width.
FilterEffectOwnWidth(o, dimensions) ==
    IF dimensions = None THEN o
    ELSE [o EXCEPT !.breakpoints =
              SelectSeq(o.breakpoints, LAMBDA bp : bp.width <= dimensions[1].width)]

\* The effect that runs after a render in which options.includeRetina or
\* imageDimensions has changed: the options it hands to onChange, or the
\* options as they are.
FilterEffect(o, dimensions) ==
    IF dimensions = None THEN o
    ELSE LET validBreakpoints ==
                 SelectSeq(o.breakpoints,
                           LAMBDA bp : RequiredWidth(o, bp) <= dimensions[1].width)
         IN  IF Len(validBreakpoints) # Len(o.breakpoints)
             THEN [o EXCEPT !.breakpoints = validBreakpoints]
             ELSE o

(***************************************************************************)
(* State.                                                                  *)
(***************************************************************************)
VARIABLES
    \* App.tsx: the component's state
    selectedFile,     \* None, or the selected file (its decoded size)
    options,
    error,
    isProcessing,
    progress,         \* None, or the last ProcessingProgress set
    processedImages,
    isComplete,
    \* the processImage call
    pc,               \* "idle", "loading", "encoding", "done"
    runFile,          \* its file argument (None before the call)
    runOptions,       \* its options argument (None before the call)
    img,              \* the loaded image (None before it has loaded)
    results,
    currentStep,
    totalSteps,
    task,             \* the createResizedImage call awaited
    canvas,           \* this.canvas: its width and height
    settled,          \* the promise processImage returned
    thrown,           \* None, or the cause of the step that failed
    \* every onProgress call of the run, each with the number of
    \* derivatives in results when it was made
    progressLog,
    \* createResizedImage called on its own: its arguments and its result
    resizeIn,
    resizeOut,
    \* another method called on its own: the method with its arguments, and
    \* what it returned
    callIn,
    callOut,
    \* whether the caller has asked for the run in flight to be abandoned;
    \* processImage(file, options, onProgress) is handed no such signal and
    \* no statement of it reads one
    cancelRequested,
    \* App.tsx: imageDimensions, None or the width and height last set by
    \* the img.onload of a handleFileSelect call
    imageDimensions,
    \* the images handleFileSelect calls have given a src and that have not
    \* loaded yet, a bag of files: each call loads an image of its own
    dimensionLoads,
    \* ProcessingOptions.tsx: the effect of lines 69-80 is due, a render with
    \* a new includeRetina or imageDimensions having been rendered
    effectPending,
    \* the number of clicks, drops and slider moves the user has made
    userEvents,
    \* App.tsx: the createArchive calls of handleDownload not yet settled
    archiving

appVars == <<selectedFile, options, error, isProcessing, progress,
             processedImages, isComplete>>
runVars == <<pc, runFile, runOptions, img, results, currentStep, totalSteps,
             task, canvas, settled, thrown, progressLog>>
resizeVars == <<resizeIn, resizeOut>>
callVars == <<callIn, callOut>>
fileVars == <<imageDimensions, dimensionLoads, effectPending, userEvents, archiving>>
vars == <<selectedFile, options, error, isProcessing, progress,
          processedImages, isComplete, pc, runFile, runOptions, img, results,
          currentStep, totalSteps, task, canvas, settled, thrown, progressLog,
          resizeIn, resizeOut, callIn, callOut, cancelRequested,
          imageDimensions, dimensionLoads, effectPending, userEvents, archiving>>

Pending == [state |-> "pending", value |-> <<>>, reason |-> ""]

\* The state of a mounted App before any processImage call.
AtRest ==
    /\ error = ""
    /\ isProcessing = FALSE
    /\ progress = None
    /\ processedImages = <<>>
    /\ isComplete = FALSE
    /\ pc = "idle"
    /\ runFile = None
    /\ runOptions = None
    /\ img = None
    /\ results = <<>>
    /\ currentStep = 0
    /\ totalSteps = 0
    /\ task = Done
    /\ canvas = [width |-> 300, height |-> 150]   \* a new canvas element
    /\ settled = Pending
    /\ thrown = None
    /\ progressLog = <<>>

\* One handleProcess call, on each file and options value within the bounds.
Init ==
    /\ selectedFile \in {None} \cup {Some(s) : s \in SourceSizes}
    /\ options \in OptionValues
    /\ AtRest
    /\ resizeIn = None
    /\ resizeOut = None
    /\ callIn = None
    /\ callOut = None
    /\ cancelRequested = FALSE
    /\ imageDimensions = None
    /\ dimensionLoads = EmptyBag
    /\ effectPending = FALSE
    /\ userEvents = 0
    /\ archiving = 0

(***************************************************************************)
(* How a processImage call ends, with handleProcess's continuation after   *)
(* its await: both run in the same turn of the event loop.                 *)
(***************************************************************************)
\* return results; then setProcessedImages, setIsComplete and the finally.
Fulfil(res) ==
    /\ settled' = [state |-> "fulfilled", value |-> res, reason |-> ""]
    /\ pc' = "done"
    /\ processedImages' = res
    /\ isComplete' = TRUE
    /\ isProcessing' = FALSE
    /\ progress' = None
    /\ UNCHANGED error

\* Mutant: processImage's catch returns what it has instead of throwing.
RejectReturningPartial(cause) ==
    /\ settled' = [state |-> "fulfilled", value |-> results, reason |-> ""]
    /\ pc' = "done"
    /\ processedImages' = results
    /\ isComplete' = TRUE
    /\ isProcessing' = FALSE
    /\ progress' = None
    /\ UNCHANGED error

\* Mutant: handleProcess has no finally, a failed run stays processing.
RejectWithoutFinally(cause) ==
    /\ settled' = [state |-> "rejected", value |-> <<>>,
                   reason |-> "Failed to process image: " \o cause]
    /\ pc' = "done"
    /\ error' = "Failed to process images. Please try again."
    /\ UNCHANGED <<processedImages, isComplete, isProcessing, progress>>

\* processImage's catch rethrows; then handleProcess's catch and finally.
Reject(cause) ==
    /\ settled' = [state |-> "rejected", value |-> <<>>,
                   reason |-> "Failed to process image: " \o cause]
    /\ pc' = "done"
    /\ error' = "Failed to process images. Please try again."
    /\ isProcessing' = FALSE
    /\ progress' = None
    /\ UNCHANGED <<processedImages, isComplete>>

\* The rest of a segment of the loop, once res, step and log are the
\* results, the step count and the onProgress calls so far and prog the
\* progress last set: return when no task is left, else enter
\* createResizedImage for the next one, which sizes the canvas and then
\* reaches its await or throws.
Continue(im, res, step, log, prog, next) ==
    LET o == runOptions[1] IN
    /\ results' = res
    /\ currentStep' = step
    /\ progressLog' = log
    /\ IF next = Done
       THEN /\ Fulfil(res)
            /\ UNCHANGED <<task, canvas, thrown>>
       ELSE /\ task' = next
            /\ canvas' = SizedCanvas(im, TargetWidth(o, next))
            /\ \E sync \in SyncOutcomes :
                  IF sync = "ok"
                  THEN /\ pc' = "encoding"
                       /\ progress' = prog
                       /\ UNCHANGED <<settled, thrown, error, isProcessing,
                                      processedImages, isComplete>>
                  ELSE /\ thrown' = Some(SyncCause(sync))
                       /\ Reject(ResizeError(SizeSuffix(o, next), SyncCause(sync)))

(***************************************************************************)
(* Actions.                                                                *)
(***************************************************************************)
\* Mutant: handleProcess checks the file only.
NothingToProcessFileOnly(file, o) ==
    file = None

\* The condition on which handleProcess returns without calling
\* processImage (processImage has no check of its own on the options).
NothingToProcess(file, o) ==
    file = None \/ Len(o.formats) = 0 \/ Len(o.breakpoints) = 0

\* App.handleProcess up to its await, with processImage up to its first
\* await (the image load).  The process button is disabled while a call is
\* in flight (canProcess); this specification follows one call to its end.
HandleProcess ==
    /\ pc = "idle"
    /\ UNCHANGED <<resizeVars, callVars, cancelRequested, fileVars>>
    /\ IF NothingToProcess(selectedFile, options)
       THEN /\ error' = "Please select formats and breakpoints"
            /\ UNCHANGED <<selectedFile, options, isProcessing, progress,
                           processedImages, isComplete>>
            /\ UNCHANGED runVars
       ELSE /\ isProcessing' = TRUE
            /\ isComplete' = FALSE
            /\ error' = ""
            /\ runFile' = selectedFile
            /\ runOptions' = Some(options)
            /\ results' = <<>>
            /\ progressLog' = <<>>
            /\ settled' = Pending
            /\ thrown' = None
            /\ pc' = "loading"
            /\ UNCHANGED <<selectedFile, options, progress, processedImages,
                           img, currentStep, totalSteps, task, canvas>>

\* loadImage's img.onload: processImage goes on to the loops.
ImageLoaded ==
    /\ pc = "loading"
    /\ img' = runFile
    /\ totalSteps' = TotalSteps(runOptions[1])
    /\ Continue(runFile[1], results, 0, progressLog, progress,
                NextPair(runOptions[1], 1, 1))
    /\ UNCHANGED <<selectedFile, options, runFile, runOptions>>
    /\ UNCHANGED <<resizeVars, callVars, cancelRequested, fileVars>>

\* loadImage's img.onerror.
ImageLoadFailed ==
    /\ pc = "loading"
    /\ thrown' = Some("Failed to load image")
    /\ Reject("Failed to load image")
    /\ UNCHANGED <<selectedFile, options, runFile, runOptions, img, results,
                   currentStep, totalSteps, task, canvas, progressLog>>
    /\ UNCHANGED <<resizeVars, callVars, cancelRequested, fileVars>>

\* The toBlob callback with a blob: createResizedImage returns, the
\* derivative is pushed, the step counted and reported, the loop goes on.
\* The code puts no condition of its own on the canvas; the backend hands
\* back a blob only for a canvas that has pixels, and may hand back null
\* (BlobFailed) for any canvas.
BlobReady ==
    /\ pc = "encoding"
    /\ HasPixels(canvas)
    /\ LET o     == runOptions[1]
           image == CreateResizedImage(img[1], TargetWidth(o, task),
                                       o.formats[task.f], o, SizeSuffix(o, task))
           res   == Append(results, image)
           step  == IncrementStep(currentStep)
           event == ProgressEvent(step, totalSteps, o, task)
       IN  Continue(img[1], res, step,
                    Append(progressLog, [progress |-> event, produced |-> Len(res)]),
                    Some(event), AfterTask(o, task))
    /\ UNCHANGED <<selectedFile, options, runFile, runOptions, img, totalSteps>>
    /\ UNCHANGED <<resizeVars, callVars, cancelRequested, fileVars>>

\* The toBlob callback with null.
BlobFailed ==
    /\ pc = "encoding"
    /\ thrown' = Some("Failed to create blob")
    /\ Reject(ResizeError(SizeSuffix(runOptions[1], task), "Failed to create blob"))
    /\ UNCHANGED <<selectedFile, options, runFile, runOptions, img, results,
                   currentStep, totalSteps, task, canvas, progressLog>>
    /\ UNCHANGED <<resizeVars, callVars, cancelRequested, fileVars>>

Next ==
    \/ HandleProcess
    \/ ImageLoaded
    \/ ImageLoadFailed
    \/ BlobReady
    \/ BlobFailed

Spec == Init /\ [][Next]_vars

(***************************************************************************)
(* A run whose caller asks for it to be abandoned while it is in flight.   *)
(* The request changes nothing processImage reads: the loops go on as in   *)
(* Spec.                                                                   *)
(***************************************************************************)
RequestCancel ==
    /\ pc \in {"loading", "encoding"}
    /\ ~cancelRequested
    /\ cancelRequested' = TRUE
    /\ UNCHANGED <<appVars, runVars, resizeVars, callVars, fileVars>>

CancelNext ==
    \/ Next
    \/ RequestCancel

SpecCancel == Init /\ [][CancelNext]_vars

(***************************************************************************)
(* One handleProcess call on the smallest images an HTMLImageElement can   *)
(* stand for: one with no pixels across, down, or both, and one of a       *)
(* single pixel.                                                           *)
(***************************************************************************)
EmptySizes ==
    { [width |-> 0,    height |-> 0],
      [width |-> 0,    height |-> 2160],
      [width |-> 3840, height |-> 0] }

SmallestSizes == EmptySizes \cup {[width |-> 1, height |-> 1]}

SmallestInit ==
    /\ selectedFile \in {Some(s) : s \in SmallestSizes}
    /\ options \in OptionValues
    /\ AtRest
    /\ resizeIn = None
    /\ resizeOut = None
    /\ callIn = None
    /\ callOut = None
    /\ cancelRequested = FALSE
    /\ imageDimensions = None
    /\ dimensionLoads = EmptyBag
    /\ effectPending = FALSE
    /\ userEvents = 0
    /\ archiving = 0

SpecSmallest == SmallestInit /\ [][Next]_vars

(***************************************************************************)
(* createResizedImage on its own, on every source size and target width    *)
(* within the bounds and on the sizes and widths the program's constants   *)
(* give.                                                                   *)
(***************************************************************************)
MaxDim == 22

ResizeSizes ==
    [width : 1..MaxDim, height : 1..MaxDim] \cup SourceSizes

ResizeTargets ==
    (1..MaxDim)
    \cup {DEFAULT_BREAKPOINTS[i].width : i \in 1..Len(DEFAULT_BREAKPOINTS)}
    \cup {DEFAULT_BREAKPOINTS[i].width * 2 : i \in 1..Len(DEFAULT_BREAKPOINTS)}

DefaultOptions ==
    [lossless |-> FALSE, quality |-> 85,
     formats |-> SelectSeq(IMAGE_FORMATS, LAMBDA f : f.extension # "png"),
     breakpoints |-> SubSeq(DEFAULT_BREAKPOINTS, 1, 5),
     includeRetina |-> TRUE]

ResizeInit ==
    /\ selectedFile = None
    /\ options = DefaultOptions
    /\ AtRest
    /\ resizeIn \in {Some([img |-> im, targetWidth |-> tw, format |-> IMAGE_FORMATS[3]]) :
                         im \in ResizeSizes, tw \in ResizeTargets}
    /\ resizeOut = None
    /\ callIn = None
    /\ callOut = None
    /\ cancelRequested = FALSE
    /\ imageDimensions = None
    /\ dimensionLoads = EmptyBag
    /\ effectPending = FALSE
    /\ userEvents = 0
    /\ archiving = 0

\* createResizedImage up to its await (lines 99-115): the canvas is sized,
\* cleared and drawn on, and toBlob is called.  Either the callback is then
\* pending, or drawImage or toBlob has thrown (toBlob does on a canvas that
\* the image has tainted) and the call throws before any callback.
ResizeEnter ==
    /\ pc = "idle"
    /\ resizeIn # None
    /\ canvas' = SizedCanvas(resizeIn[1].img, resizeIn[1].targetWidth)
    /\ \E sync \in SyncOutcomes :
          IF sync = "ok"
          THEN /\ pc' = "encoding"
               /\ UNCHANGED thrown
          ELSE /\ thrown' = Some(ResizeError(ToString(resizeIn[1].targetWidth),
                                             SyncCause(sync)))
               /\ pc' = "done"
    /\ UNCHANGED <<runFile, runOptions, img, results, currentStep, totalSteps,
                   task, settled, progressLog>>
    /\ UNCHANGED <<resizeVars, appVars, callVars, cancelRequested, fileVars>>

\* The toBlob callback with a blob, in a later task: the call resolves.
Resize ==
    /\ pc = "encoding"
    /\ resizeIn # None
    /\ HasPixels(canvas)
    /\ resizeOut' = Some(CreateResizedImage(resizeIn[1].img, resizeIn[1].targetWidth,
                                            resizeIn[1].format, options,
                                            ToString(resizeIn[1].targetWidth)))
    /\ pc' = "done"
    /\ UNCHANGED <<runFile, runOptions, img, results, currentStep, totalSteps,
                   task, canvas, settled, thrown, progressLog>>
    /\ UNCHANGED <<resizeIn, appVars, callVars, cancelRequested, fileVars>>

\* The toBlob callback with null, in a later task: the call throws.
ResizeFails ==
    /\ pc = "encoding"
    /\ resizeIn # None
    /\ thrown' = Some(ResizeError(ToString(resizeIn[1].targetWidth),
                                  "Failed to create blob"))
    /\ pc' = "done"
    /\ UNCHANGED <<runFile, runOptions, img, results, currentStep, totalSteps,
                   task, canvas, settled, progressLog>>
    /\ UNCHANGED <<resizeVars, appVars, callVars, cancelRequested, fileVars>>

ResizeNext ==
    \/ ResizeEnter
    \/ Resize
    \/ ResizeFails

SpecResize == ResizeInit /\ [][ResizeNext]_vars

(***************************************************************************)
(* canvasToBlob on its own, on every format and on every options value the *)
(* panel can set: lossless on or off, the quality slider anywhere in its   *)
(* range (min="10" max="100", whole numbers).                              *)
(***************************************************************************)
QualityRange == 10..100

EncodeInit ==
    /\ selectedFile = None
    /\ options = DefaultOptions
    /\ AtRest
    /\ resizeIn = None
    /\ resizeOut = None
    /\ callIn \in {Some([method  |-> "canvasToBlob",
                          format  |-> IMAGE_FORMATS[i],
                          options |-> [DefaultOptions EXCEPT !.lossless = l,
                                                             !.quality = q]]) :
                        i \in 1..Len(IMAGE_FORMATS), l \in BOOLEAN, q \in QualityRange}
    /\ callOut = None
    /\ cancelRequested = FALSE
    /\ imageDimensions = None
    /\ dimensionLoads = EmptyBag
    /\ effectPending = FALSE
    /\ userEvents = 0
    /\ archiving = 0

\* The toBlob call is made.
Encode ==
    /\ callOut = None
    /\ callOut' = Some(CanvasToBlob(callIn[1].format, callIn[1].options))
    /\ UNCHANGED <<callIn, appVars, runVars, resizeVars, cancelRequested, fileVars>>

EncodeNext == Encode

SpecEncode == EncodeInit /\ [][EncodeNext]_vars

(***************************************************************************)
(* analyzeImage on its own (ImagePreview calls it on the image it has      *)
(* loaded), on every image up to MaxSide pixels wide and high that holds   *)
(* one of the patterns in the colours below.  Such an image fits the       *)
(* sample size, so the data analysed are its own pixels.                   *)
(***************************************************************************)
MaxSide == 5

Black == <<0, 0, 0>>
White == <<255, 255, 255>>
Grey(v) == <<v, v, v>>

Flat(a) == [kind |-> "flat", a |-> a, b |-> a, at |-> 0]
Checkerboard(a, b) == [kind |-> "checkerboard", a |-> a, b |-> b, at |-> 0]
Halves(a, b) == [kind |-> "halves", a |-> a, b |-> b, at |-> 0]
Dot(a, b, at) == [kind |-> "dot", a |-> a, b |-> b, at |-> at]

FlatColours == {Black, White, Grey(1), Grey(100), <<255, 0, 0>>, <<12, 200, 77>>}

SmallPatterns(width, height) ==
    {Flat(c) : c \in FlatColours}
    \cup {Checkerboard(Black, White), Checkerboard(White, Black)}
    \cup {Halves(Black, White), Halves(Grey(100), Grey(130))}
    \cup {Dot(Black, White, at) : at \in 0..(width * height - 1)}

SmallImages ==
    UNION {{[width |-> w, height |-> h, pixels |-> px] : px \in SmallPatterns(w, h)} :
           w \in 1..MaxSide, h \in 1..MaxSide}

AnalyzeInit ==
    /\ selectedFile = None
    /\ options = DefaultOptions
    /\ AtRest
    /\ resizeIn = None
    /\ resizeOut = None
    /\ callIn \in {Some([method |-> "analyzeImage", imageElement |-> im]) :
                      im \in SmallImages}
    /\ callOut = None
    /\ cancelRequested = FALSE
    /\ imageDimensions = None
    /\ dimensionLoads = EmptyBag
    /\ effectPending = FALSE
    /\ userEvents = 0
    /\ archiving = 0

\* The call returns its metrics.
Analyze ==
    /\ callOut = None
    /\ callOut' = Some(AnalyzeImage(callIn[1].imageElement,
                                    GetImageData(callIn[1].imageElement)))
    /\ UNCHANGED <<callIn, appVars, runVars, resizeVars, cancelRequested, fileVars>>

AnalyzeNext == Analyze

SpecAnalyze == AnalyzeInit /\ [][AnalyzeNext]_vars

(***************************************************************************)
(* calculateConfidence on its own.  Its inputs are the width and height of *)
(* the image, of the sizes its thresholds tell apart, and an ImageData of  *)
(* the sample size analyzeImage takes for that image.  How drawImage       *)
(* resamples a larger image is left to the backend and is not modelled:    *)
(* the ImageData is an input, drawn from the buffers below.                *)
(***************************************************************************)
ConfidenceSizes ==
    { [width |-> 1,    height |-> 1],
      [width |-> 316,  height |-> 316],     \*    99,856 pixels
      [width |-> 400,  height |-> 250],     \*   100,000
      [width |-> 1000, height |-> 500],     \*   500,000
      [width |-> 1001, height |-> 500],     \*   500,500
      [width |-> 2000, height |-> 1000],    \* 2,000,000
      [width |-> 2001, height |-> 1000],    \* 2,001,000
      [width |-> 3840, height |-> 2160] }

\* Pairs of greys whose luminances are 11, 19, 20, 50, 51, 192 and 255
\* apart.
ConfidencePatterns ==
    {Flat(Black), Flat(White), Checkerboard(Black, White)}
    \cup {Halves(Grey(100), Grey(v)) : v \in {111, 119, 120, 150, 151}}
    \cup {Halves(Grey(31), Grey(223)), Halves(Black, White)}

ConfidenceInit ==
    /\ selectedFile = None
    /\ options = DefaultOptions
    /\ AtRest
    /\ resizeIn = None
    /\ resizeOut = None
    /\ callIn \in {Some([method       |-> "calculateConfidence",
                          imageElement |-> s,
                          imageData    |-> [width  |-> SampleWidth(s),
                                            height |-> SampleHeight(s),
                                            pixels |-> px]]) :
                       s \in ConfidenceSizes, px \in ConfidencePatterns}
    /\ callOut = None
    /\ cancelRequested = FALSE
    /\ imageDimensions = None
    /\ dimensionLoads = EmptyBag
    /\ effectPending = FALSE
    /\ userEvents = 0
    /\ archiving = 0

Confidence ==
    /\ callOut = None
    /\ callOut' = Some(CalculateConfidence(callIn[1].imageElement, callIn[1].imageData))
    /\ UNCHANGED <<callIn, appVars, runVars, resizeVars, cancelRequested, fileVars>>

ConfidenceNext == Confidence

SpecConfidence == ConfidenceInit /\ [][ConfidenceNext]_vars

(***************************************************************************)
(* classifyBlurLevel on its own, on the scores 0, 0.5, 1, ... MaxScore and *)
(* on NaN.                                                                 *)
(***************************************************************************)
MaxScore == 1100

Scores == {FDiv(k, 2) : k \in 0..(2 * MaxScore)} \cup {FNaN}

ClassifyInit ==
    /\ selectedFile = None
    /\ options = DefaultOptions
    /\ AtRest
    /\ resizeIn = None
    /\ resizeOut = None
    /\ callIn \in {Some([method |-> "classifyBlurLevel", sharpness |-> s]) : s \in Scores}
    /\ callOut = None
    /\ cancelRequested = FALSE
    /\ imageDimensions = None
    /\ dimensionLoads = EmptyBag
    /\ effectPending = FALSE
    /\ userEvents = 0
    /\ archiving = 0

Classify ==
    /\ callOut = None
    /\ callOut' = Some(ClassifyBlurLevel(callIn[1].sharpness))
    /\ UNCHANGED <<callIn, appVars, runVars, resizeVars, cancelRequested, fileVars>>

ClassifyNext == Classify

SpecClassify == ClassifyInit /\ [][ClassifyNext]_vars

(***************************************************************************)
(* The options panel on its own: every sequence of its handlers, from the  *)
(* options the App starts with, while imageDimensions (the panel's prop)   *)
(* changes between null and the sizes below.  A handler and the effect     *)
(* that its re-render schedules are two steps (RunEffect is the second);   *)
(* React runs a pending effect before it handles the next panel event.     *)
(***************************************************************************)
PanelDimensions ==
    { [width |-> 7680, height |-> 4320],
      [width |-> 3840, height |-> 2160],
      [width |-> 1000, height |-> 1000],
      [width |-> 800,  height |-> 600],
      [width |-> 400,  height |-> 300] }

PanelInit ==
    /\ selectedFile = None
    /\ options = DefaultOptions
    /\ AtRest
    /\ resizeIn = None
    /\ resizeOut = None
    /\ callIn = None
    /\ callOut = None
    /\ cancelRequested = FALSE
    /\ imageDimensions = None
    /\ dimensionLoads = EmptyBag
    /\ effectPending = FALSE
    /\ userEvents = 0
    /\ archiving = 0

PanelUnchanged ==
    UNCHANGED <<selectedFile, error, isProcessing, progress, processedImages,
                isComplete, runVars, resizeVars, callVars, cancelRequested,
                dimensionLoads, archiving>>

\* The quality slider: min="10" max="100", whole numbers.
SliderValues == {10, 50, 85, 100}

\* The handlers below are entered with no effect due: React runs a
\* pending effect before it renders the update of a later event, so the
\* event finds, or is overwritten by, what the effect has set.  They leave
\* the count of the user's inputs to the specification that uses them.

\* A click on an enabled format button.
ToggleFormat ==
    /\ ~effectPending
    /\ \E formatIndex \in 1..Len(IMAGE_FORMATS) :
          /\ ~FormatDisabled(options, formatIndex)
          /\ options' = HandleFormatToggle(options, formatIndex)
    /\ UNCHANGED <<imageDimensions, effectPending>>
    /\ PanelUnchanged

\* A click on an enabled breakpoint button.
ToggleBreakpoint ==
    /\ ~effectPending
    /\ \E breakpointIndex \in 1..Len(DEFAULT_BREAKPOINTS) :
          /\ ~BreakpointDisabled(options, imageDimensions,
                                 DEFAULT_BREAKPOINTS[breakpointIndex])
          /\ options' = HandleBreakpointToggle(options, imageDimensions, breakpointIndex)
    /\ UNCHANGED <<imageDimensions, effectPending>>
    /\ PanelUnchanged

\* A click on the retina checkbox while it is enabled.  The effect is due
\* after the render; with imageDimensions null it returns at once.
ToggleRetina ==
    /\ ~effectPending
    /\ ~IsRetinaDisabled(imageDimensions)
    /\ options' = [options EXCEPT !.includeRetina = ~options.includeRetina]
    /\ effectPending' = (imageDimensions # None)
    /\ UNCHANGED imageDimensions
    /\ PanelUnchanged

\* A click on the lossless checkbox.
ToggleLossless ==
    /\ ~effectPending
    /\ options' = [options EXCEPT !.lossless = ~options.lossless]
    /\ UNCHANGED <<imageDimensions, effectPending>>
    /\ PanelUnchanged

\* The quality slider is moved while it is enabled.
SetQuality ==
    /\ ~effectPending
    /\ ~options.lossless
    /\ \E quality \in SliderValues \ {options.quality} :
          options' = [options EXCEPT !.quality = quality]
    /\ UNCHANGED <<imageDimensions, effectPending>>
    /\ PanelUnchanged

\* The App sets imageDimensions: null on a file selection or removal, a
\* size when an image given to handleFileSelect has loaded.  With null the
\* effect returns at once; with a size it is due after the render.
DimensionsChange ==
    /\ ~effectPending
    /\ \E d \in {None} \cup {Some(size) : size \in PanelDimensions} :
          /\ imageDimensions' = d
          /\ effectPending' = (d # None)
    /\ UNCHANGED options
    /\ PanelUnchanged

\* The effect of ProcessingOptions.tsx 69-80, run by React after the render
\* that followed the image's load or the retina click.
RunEffect ==
    /\ effectPending
    /\ options' = FilterEffect(options, imageDimensions)
    /\ effectPending' = FALSE
    /\ UNCHANGED imageDimensions
    /\ PanelUnchanged

PanelNext ==
    \/ ToggleFormat /\ UNCHANGED userEvents
    \/ ToggleBreakpoint /\ UNCHANGED userEvents
    \/ ToggleRetina /\ UNCHANGED userEvents
    \/ ToggleLossless /\ UNCHANGED userEvents
    \/ SetQuality /\ UNCHANGED userEvents
    \/ DimensionsChange /\ UNCHANGED userEvents
    \/ RunEffect /\ UNCHANGED userEvents

SpecPanel == PanelInit /\ [][PanelNext]_vars

(***************************************************************************)
(* The App as its user drives it: files are selected in the drop zone      *)
(* (shown while no file is selected) and removed in the preview (shown     *)
(* while one is), options are toggled in the panel, the process button is  *)
(* clicked while it is enabled, and every processImage call runs segment   *)
(* by segment in between.  The drop zone hands on accepted files only.     *)
(* The user makes at most MaxUserEvents inputs (drops, clicks, slider       *)
(* moves); at most MaxLoads images are loading and MaxArchives archives    *)
(* are being made at a time.                                               *)
(***************************************************************************)
MaxUserEvents == 4
MaxLoads == 2
MaxArchives == 1

AppFiles ==
    { [width |-> 3840, height |-> 2160],
      [width |-> 1000, height |-> 1000] }

AppInit ==
    /\ selectedFile = None
    /\ options = DefaultOptions
    /\ AtRest
    /\ resizeIn = None
    /\ resizeOut = None
    /\ callIn = None
    /\ callOut = None
    /\ cancelRequested = FALSE
    /\ imageDimensions = None
    /\ dimensionLoads = EmptyBag
    /\ effectPending = FALSE
    /\ userEvents = 0
    /\ archiving = 0

\* One more input of the user.
UserEvent ==
    /\ userEvents < MaxUserEvents
    /\ userEvents' = userEvents + 1

\* handleFileSelect, up to img.src = url.
FileSelect ==
    /\ UserEvent
    /\ selectedFile = None
    /\ ~effectPending
    /\ BagCardinality(dimensionLoads) < MaxLoads
    /\ \E file \in AppFiles :
          /\ selectedFile' = Some(file)
          /\ dimensionLoads' = dimensionLoads (+) SetToBag({file})
    /\ error' = ""
    /\ isComplete' = FALSE
    /\ processedImages' = <<>>
    /\ imageDimensions' = None
    /\ UNCHANGED <<options, isProcessing, progress, runVars, resizeVars, callVars,
                   cancelRequested, effectPending, archiving>>

\* The img.onload of a handleFileSelect call: the panel's effect is due
\* after the render (RunEffect).
DimensionsLoaded ==
    /\ ~effectPending
    /\ \E file \in BagToSet(dimensionLoads) :
          /\ dimensionLoads' = dimensionLoads (-) SetToBag({file})
          /\ imageDimensions' = Some(file)
    /\ effectPending' = TRUE
    /\ UNCHANGED <<selectedFile, options, error, isProcessing, progress,
                   processedImages, isComplete, runVars, resizeVars, callVars,
                   cancelRequested, userEvents, archiving>>

\* handleRemoveFile.
RemoveFile ==
    /\ UserEvent
    /\ selectedFile # None
    /\ ~effectPending
    /\ selectedFile' = None
    /\ imageDimensions' = None
    /\ error' = ""
    /\ isComplete' = FALSE
    /\ processedImages' = <<>>
    /\ progress' = None
    /\ UNCHANGED <<options, isProcessing, dimensionLoads, effectPending, runVars,
                   resizeVars, callVars, cancelRequested, archiving>>

\* Mutant: the button is enabled while a run is in flight.
CanProcessWhileProcessing(file, processing, o) ==
    file # None /\ Len(o.formats) > 0 /\ Len(o.breakpoints) > 0

\* canProcess: the process button is enabled.
CanProcess(file, processing, o) ==
    file # None /\ ~processing /\ Len(o.formats) > 0 /\ Len(o.breakpoints) > 0

\* A click on the enabled process button: handleProcess up to its await,
\* with a new ImageProcessor and its processImage up to the image load.
ProcessClicked ==
    /\ UserEvent
    /\ CanProcess(selectedFile, isProcessing, options)
    /\ ~NothingToProcess(selectedFile, options)
    /\ isProcessing' = TRUE
    /\ isComplete' = FALSE
    /\ error' = ""
    /\ runFile' = selectedFile
    /\ runOptions' = Some(options)
    /\ img' = None
    /\ results' = <<>>
    /\ currentStep' = 0
    /\ totalSteps' = 0
    /\ task' = Done
    /\ canvas' = [width |-> 300, height |-> 150]
    /\ progressLog' = <<>>
    /\ settled' = Pending
    /\ thrown' = None
    /\ pc' = "loading"
    /\ UNCHANGED <<selectedFile, options, progress, processedImages, resizeVars,
                   callVars, cancelRequested, imageDimensions, dimensionLoads,
                   effectPending, archiving>>

\* A click on the download button, shown while isComplete is set:
\* handleDownload up to its await.  It returns at once with nothing to
\* archive.
DownloadClicked ==
    /\ UserEvent
    /\ selectedFile # None
    /\ isComplete
    /\ processedImages # <<>>
    /\ archiving < MaxArchives
    /\ archiving' = archiving + 1
    /\ UNCHANGED <<appVars, runVars, resizeVars, callVars, cancelRequested,
                   imageDimensions, dimensionLoads, effectPending>>

\* createArchive resolves.
ArchiveCreated ==
    /\ archiving > 0
    /\ archiving' = archiving - 1
    /\ UNCHANGED <<appVars, runVars, resizeVars, callVars, cancelRequested,
                   imageDimensions, dimensionLoads, effectPending, userEvents>>

\* createArchive rejects: handleDownload's catch.
ArchiveFails ==
    /\ archiving > 0
    /\ archiving' = archiving - 1
    /\ error' = "Failed to create archive. Please try again."
    /\ UNCHANGED <<selectedFile, options, isProcessing, progress, processedImages,
                   isComplete, runVars, resizeVars, callVars, cancelRequested,
                   imageDimensions, dimensionLoads, effectPending, userEvents>>

AppNext ==
    \/ FileSelect
    \/ DimensionsLoaded
    \/ RunEffect /\ UNCHANGED userEvents
    \/ RemoveFile
    \/ UserEvent /\ ToggleFormat
    \/ UserEvent /\ ToggleBreakpoint
    \/ UserEvent /\ ToggleRetina
    \/ UserEvent /\ ToggleLossless
    \/ UserEvent /\ SetQuality
    \/ ProcessClicked
    \/ ImageLoaded
    \/ ImageLoadFailed
    \/ BlobReady
    \/ BlobFailed
    \/ DownloadClicked
    \/ ArchiveCreated
    \/ ArchiveFails

SpecApp == AppInit /\ [][AppNext]_vars

\* The browser fires load or error for every image it is given, and calls
\* back every toBlob.
AppFairness ==
    /\ WF_vars(ImageLoadFailed \/ ImageLoaded)
    /\ WF_vars(BlobFailed \/ BlobReady)

SpecAppFair == SpecApp /\ AppFairness

(***************************************************************************)
(* The claims.                                                             *)
(***************************************************************************)
Last(s) == s[Len(s)]

HasJpg(o) == \E i \in 1..Len(o.formats) : o.formats[i].extension = "jpg"

EndsWith(str, suffix) ==
    /\ Len(str) >= Len(suffix)
    /\ SubSeq(str, Len(str) - Len(suffix) + 1, Len(str)) = suffix

\* num / den rounded to the nearest integer, a half going up (exactly).
RoundHalfUp(num, den) == (2 * num + den) \div (2 * den)

Fulfilled == settled.state = "fulfilled"
Rejected == settled.state = "rejected"

RetinaFactor(o) == IF o.includeRetina THEN 2 ELSE 1

\* C1: in a successful run the last progress event has current = total =
\* the number of derivatives returned, whatever the options (also with
\* lossless set and jpg among the formats).
C1_FinalProgressReachesTotal ==
    (Fulfilled /\ progressLog # <<>>) =>
        /\ Last(progressLog).progress.current = Last(progressLog).progress.total
        /\ Last(progressLog).progress.total = Len(settled.value)

\* C2, as claimed: with non-empty breakpoints and formats the number of
\* derivatives is B * F * (retina ? 2 : 1) - (lossless ? B * [jpg] : 0).
C2_CountAsClaimed ==
    Fulfilled =>
        LET o == runOptions[1]
            B == Len(o.breakpoints)
            F == Len(o.formats)
        IN  Len(settled.value) =
                B * F * RetinaFactor(o)
                - (IF o.lossless /\ HasJpg(o) THEN B ELSE 0)

\* C2, amended: the skipped jpg pairs are subtracted with their retina
\* derivatives: B * F * (retina ? 2 : 1)
\*              - (lossless ? B * [jpg] * (retina ? 2 : 1) : 0).
C2_CountAmended ==
    Fulfilled =>
        LET o == runOptions[1]
            B == Len(o.breakpoints)
            F == Len(o.formats)
        IN  Len(settled.value) =
                B * F * RetinaFactor(o)
                - (IF o.lossless /\ HasJpg(o) THEN B * RetinaFactor(o) ELSE 0)

C2_Witness ==
    /\ Fulfilled
    /\ runOptions[1].lossless /\ HasJpg(runOptions[1])
    /\ runOptions[1].includeRetina
    /\ Len(runOptions[1].breakpoints) = 2
    /\ Len(settled.value) = 4

\* C3: the progress events of a run count 1, 2, 3, ..., and the k-th is
\* made when exactly k derivatives have been appended to the results.
C3_ProgressCountsDerivatives ==
    \A k \in 1..Len(progressLog) :
        /\ progressLog[k].progress.current = k
        /\ progressLog[k].produced = k

C3_Witness ==
    /\ Len(progressLog) >= 4
    /\ pc = "encoding"

\* C4: with lossless set no derivative is named *.jpg and every derivative
\* was encoded on the lossless branch of canvasToBlob (no quality argument).
C4_LosslessNoJpg ==
    (runOptions # None /\ runOptions[1].lossless) =>
        \A i \in 1..Len(results) :
            /\ ~EndsWith(results[i].name, ".jpg")
            /\ results[i].blob.quality = None
            /\ results[i].blob.type = "image/png"

C4_Witness ==
    /\ Fulfilled
    /\ runOptions[1].lossless /\ HasJpg(runOptions[1])
    /\ Len(runOptions[1].formats) = 2
    /\ Len(settled.value) >= 2

\* The names the claimed order gives: breakpoints in the order of the
\* options, formats in the order of the options, the standard derivative
\* of a pair right before its retina derivative.
PairNames(o, b, f) ==
    LET width == ToString(o.breakpoints[b].width)
        ext   == o.formats[f].extension
    IN  IF o.lossless /\ ext = "jpg" THEN <<>>
        ELSE IF o.includeRetina
        THEN <<"image-" \o width \o "." \o ext, "image-" \o width \o "@2x." \o ext>>
        ELSE <<"image-" \o width \o "." \o ext>>

RECURSIVE FormatNames(_, _, _)
FormatNames(o, b, f) ==
    IF f > Len(o.formats) THEN <<>>
    ELSE PairNames(o, b, f) \o FormatNames(o, b, f + 1)

RECURSIVE OrderedNames(_, _)
OrderedNames(o, b) ==
    IF b > Len(o.breakpoints) THEN <<>>
    ELSE FormatNames(o, b, 1) \o OrderedNames(o, b + 1)

Names(res) == [i \in 1..Len(res) |-> res[i].name]

\* C5: the derivatives returned are ordered by breakpoint, then by format,
\* and within a pair image-{width}.{ext} comes right before
\* image-{width}@2x.{ext}, {width} being the breakpoint's own width.
C5_ReturnedOrder ==
    Fulfilled => Names(settled.value) = OrderedNames(runOptions[1], 1)

C5_Witness ==
    /\ Fulfilled
    /\ Len(runOptions[1].breakpoints) = 2
    /\ Len(runOptions[1].formats) = 2
    /\ runOptions[1].includeRetina
    /\ Len(settled.value) = 8

\* The scenario of C6: a 3840x2160 source, breakpoints [1920, 768], formats
\* [WebP, JPEG], retina, not lossless.
C6_Scenario ==
    /\ runFile = Some([width |-> 3840, height |-> 2160])
    /\ runOptions # None
    /\ runOptions[1].breakpoints = <<DEFAULT_BREAKPOINTS[3], DEFAULT_BREAKPOINTS[5]>>
    /\ runOptions[1].formats = <<IMAGE_FORMATS[2], IMAGE_FORMATS[3]>>
    /\ runOptions[1].includeRetina
    /\ ~runOptions[1].lossless

\* C6, as claimed: the scenario returns the 8 names with both standard
\* derivatives of a breakpoint before both retina derivatives.
C6_NamesAsClaimed ==
    (C6_Scenario /\ Fulfilled) =>
        Names(settled.value) =
            <<"image-1920.webp", "image-1920.jpg",
              "image-1920@2x.webp", "image-1920@2x.jpg",
              "image-768.webp", "image-768.jpg",
              "image-768@2x.webp", "image-768@2x.jpg">>

\* C6, amended: the scenario returns the same 8 names, each format's
\* standard derivative right before its retina derivative.
C6_NamesAmended ==
    (C6_Scenario /\ Fulfilled) =>
        Names(settled.value) =
            <<"image-1920.webp", "image-1920@2x.webp",
              "image-1920.jpg", "image-1920@2x.jpg",
              "image-768.webp", "image-768@2x.webp",
              "image-768.jpg", "image-768@2x.jpg">>

C6_Witness == C6_Scenario /\ Fulfilled

\* C7: createResizedImage gives width = min(target, source width) and
\* height = width * h0 / w0 rounded to the nearest integer, a half going up.
C7_ResizedDimensions ==
    resizeOut # None =>
        LET im == resizeIn[1].img
            d  == resizeOut[1].dimensions
        IN  /\ d.width = Min(resizeIn[1].targetWidth, im.width)
            /\ d.width <= im.width
            /\ d.height = RoundHalfUp(d.width * im.height, im.width)

\* C8: on every source at least 1 wide and 1 high, and at every breakpoint,
\* each derivative is at least 1 wide and 1 high, also where width * h0 / w0
\* is below 0.5: the size createResizedImage gives the derivative it is
\* making (the canvas it hands to the encoder) and the dimensions of every
\* derivative processImage returns are both at least 1.
C8_PositiveDimensions ==
    /\ Fulfilled =>
          \A i \in 1..Len(settled.value) :
              /\ settled.value[i].dimensions.width >= 1
              /\ settled.value[i].dimensions.height >= 1
    /\ (pc = "encoding" /\ img[1].width >= 1 /\ img[1].height >= 1) =>
          /\ canvas.width >= 1
          /\ canvas.height >= 1

\* C9: in every progress event current <= total, and current never
\* decreases from one event of a run to the next.
C9_ProgressBounded ==
    /\ \A k \in 1..Len(progressLog) :
          /\ progressLog[k].progress.current <= progressLog[k].progress.total
          /\ k > 1 => progressLog[k - 1].progress.current
                          <= progressLog[k].progress.current
    /\ progress # None => progress[1].current <= progress[1].total

C9_Witness ==
    /\ Fulfilled
    /\ Len(progressLog) >= 2
    /\ Last(progressLog).progress.current < Last(progressLog).progress.total

\* C10: once a step has failed the run is over and nothing more is done:
\* the caller gets an error and no derivative list, nothing is stored in
\* processedImages, and no later step or progress event follows.
C10_FailFast ==
    /\ [](thrown # None =>
            /\ pc = "done"
            /\ Rejected
            /\ settled.value = <<>>
            /\ processedImages = <<>>
            /\ ~isComplete
            /\ ~isProcessing
            /\ progress = None
            /\ error = "Failed to process images. Please try again.")
    /\ [][thrown # None =>
            UNCHANGED <<results, progressLog, currentStep, task, canvas,
                        settled, processedImages>>]_vars

C10_Witness ==
    /\ thrown # None
    /\ Rejected
    /\ Len(results) >= 2
    /\ Len(progressLog) >= 2

EmptyConfig(o) == Len(o.formats) = 0 \/ Len(o.breakpoints) = 0

ConfigMessage == "Please select formats and breakpoints"

\* C11: with no format or no breakpoint selected, generation fails with the
\* configuration message before any work starts: the image is never
\* loaded, the canvas never sized, no derivative made, no progress event
\* emitted, and no list (not even an empty one) comes back as a success.
C11_ConfigErrorBeforeWork ==
    /\ [](EmptyConfig(options) =>
            /\ pc = "idle"
            /\ runOptions = None
            /\ img = None
            /\ canvas = [width |-> 300, height |-> 150]
            /\ results = <<>>
            /\ progressLog = <<>>
            /\ progress = None
            /\ settled = Pending
            /\ processedImages = <<>>
            /\ ~isComplete
            /\ ~isProcessing
            /\ error \in {"", ConfigMessage})
    /\ [][(EmptyConfig(options) /\ error' # error) => error' = ConfigMessage]_vars

C11_Witness ==
    /\ selectedFile # None
    /\ EmptyConfig(options)
    /\ error = ConfigMessage

\* A new (breakpoint, format) pair is started: createResizedImage is
\* entered for the standard derivative of a pair.
StartsPair ==
    /\ task' # task
    /\ task' # Done
    /\ ~task'.retina

\* C12: once cancellation has been signalled no further (breakpoint,
\* format) pair is started, and the run does not end with a derivative
\* list, partial or complete: nothing of it is returned or stored.
C12_CancelStopsBatch ==
    /\ [][cancelRequested => ~StartsPair]_vars
    /\ [](cancelRequested =>
            /\ ~Fulfilled
            /\ processedImages = <<>>
            /\ ~isComplete)

\* C13: for the PNG format or with lossless set, canvasToBlob asks for a
\* lossless (image/png) encode and hands the backend no quality, whatever
\* options.quality is; otherwise it asks for the format's own media type
\* at quality options.quality / 100, a value in [0.1, 1.0].
C13_EncodeRule ==
    callOut # None =>
        LET format == callIn[1].format
            o      == callIn[1].options
            call   == callOut[1]
        IN  IF format.extension = "png" \/ o.lossless
            THEN call = [type |-> "image/png", quality |-> None]
            ELSE /\ call.type = format.mimeType
                 /\ call.quality # None
                 /\ call.quality[1] = FDiv(o.quality, 100)
                 /\ FLeq(FDiv(1, 10), call.quality[1])
                 /\ FLeq(call.quality[1], FDiv(1, 1))

C13_Witness ==
    /\ callOut # None
    /\ callIn[1].format.extension = "webp"
    /\ ~callIn[1].options.lossless
    /\ callIn[1].options.quality = 10
    /\ callOut[1] = [type |-> "image/webp", quality |-> Some(FDiv(1, 10))]

\* C14: the confidence is a number in [0, 1], for every pixel count and
\* every contrast of the sample, a 1 x 1 image and an all-black image
\* among them.
C14_ConfidenceInUnitInterval ==
    callOut # None =>
        /\ callOut[1].kind # "nan"
        /\ FLeq(FZero, callOut[1])
        /\ FLeq(callOut[1], FInt(1))

C14_Witness ==
    /\ callOut # None
    /\ callIn[1].imageElement = [width |-> 1, height |-> 1]
    /\ callIn[1].imageData.pixels = Flat(Black)
    /\ FLess(FZero, callOut[1])
    /\ FLess(callOut[1], FDiv(2, 10))

BlurLevels == {"sharp", "moderate", "blurry", "very-blurry"}

\* C15: for every image, also one whose sample is less than 3 pixels wide
\* or high, the sharpness analyzeImage returns is a number >= 0 (not NaN)
\* and the blur level one of the four classes.
C15_SharpnessDefined ==
    callOut # None =>
        /\ callOut[1].sharpness.kind # "nan"
        /\ FLeq(FZero, callOut[1].sharpness)
        /\ callOut[1].blurLevel \in BlurLevels

\* C16: a flat image of any size gets sharpness exactly 0 and the blur
\* level very-blurry.
C16_FlatImage ==
    (callOut # None /\ callIn[1].imageElement.pixels.kind = "flat") =>
        /\ callOut[1].sharpness = FZero
        /\ callOut[1].blurLevel = "very-blurry"

\* C17: a black and white checkerboard of one-pixel cells gets the blur
\* level sharp and a confidence strictly above that of a flat image of
\* the same width and height, whatever the width.  Stated for images of at
\* least 3 x 3 pixels: a smaller one has no interior pixel (C15), and a
\* 1 x 1 checkerboard is a flat image.
C17_Checkerboard ==
    LET im == callIn[1].imageElement IN
    (/\ callOut # None
     /\ im.pixels \in {Checkerboard(Black, White), Checkerboard(White, Black)}
     /\ im.width >= 3
     /\ im.height >= 3) =>
        /\ callOut[1].blurLevel = "sharp"
        /\ \A c \in FlatColours :
              LET flat == [im EXCEPT !.pixels = Flat(c)]
              IN  FLess(AnalyzeImage(flat, GetImageData(flat)).confidence,
                        callOut[1].confidence)

\* Twice a score that is a whole number of halves.
Doubled(score) == MathRound(FMulInt(2, score))

\* C18: a score above 1000 is sharp, else one above 500 moderate, else one
\* above 100 blurry, else very-blurry; 1000, 500 and 100 themselves fall
\* into the lower class.
C18_Classification ==
    callOut # None =>
        LET score == callIn[1].sharpness
            level == callOut[1]
        IN  /\ level \in BlurLevels
            /\ score.kind # "nan" =>
                  /\ (level = "sharp") = (Doubled(score) > 2000)
                  /\ (level = "moderate") = (Doubled(score) > 1000 /\ Doubled(score) <= 2000)
                  /\ (level = "blurry") = (Doubled(score) > 200 /\ Doubled(score) <= 1000)
                  /\ (level = "very-blurry") = (Doubled(score) <= 200)
            /\ score = FInt(1000) => level = "moderate"
            /\ score = FInt(500) => level = "blurry"
            /\ score = FInt(100) => level = "very-blurry"

C18_Witness ==
    /\ callOut = Some("moderate")
    /\ callIn[1].sharpness = FInt(1000)

\* x + t / 10 for a whole number t of tenths, negative or not.
PlusTenths(x, t) ==
    IF t >= 0 THEN FAdd(x, FDiv(t, 10)) ELSE FSub(x, FDiv(0 - t, 10))

\* C19: the confidence is 0.5 + M + C kept within [0, 1], where M is set by
\* the pixel count of the image itself (+0.3 above 2,000,000, else +0.2
\* above 500,000, -0.2 below 100,000, else 0) and C by the contrast of
\* the sample (+0.2 above 50, -0.1 below 20, else 0).
C19_ConfidenceTerms ==
    callOut # None =>
        LET count    == callIn[1].imageElement.width * callIn[1].imageElement.height
            contrast == CalculateContrast(callIn[1].imageData)
            M == IF count > 2000000 THEN 3
                 ELSE IF count > 500000 THEN 2
                 ELSE IF count < 100000 THEN 0 - 2
                 ELSE 0
            C == IF FLess(FInt(50), contrast) THEN 2
                 ELSE IF FLess(contrast, FInt(20)) THEN 0 - 1
                 ELSE 0
            sum == PlusTenths(PlusTenths(FDiv(1, 2), M), C)
        IN  callOut[1] = IF FLess(FInt(1), sum) THEN FInt(1) ELSE sum

C19_Witness ==
    /\ callOut = Some(FInt(1))
    /\ callIn[1].imageElement.width = 2001
    /\ callIn[1].imageElement.height = 1000
    /\ callIn[1].imageData.width = 800
    /\ callIn[1].imageData.height = 600
    /\ callIn[1].imageData.pixels = Halves(Black, White)

EmptySource(file) ==
    file # None /\ (file[1].width = 0 \/ file[1].height = 0)

\* C20: on a source whose width or height is 0, no createResizedImage call
\* returns a derivative (none is pushed, none reported, none stored), and
\* the processImage call that made one rejects with the error it threw.
C20_EmptySourceFails ==
    EmptySource(runFile) =>
        /\ results = <<>>
        /\ progressLog = <<>>
        /\ processedImages = <<>>
        /\ (task # Done /\ pc = "done") =>
              /\ Rejected
              /\ thrown # None
              /\ ~isComplete

C20_Witness ==
    /\ runFile = Some([width |-> 0, height |-> 2160])
    /\ task # Done
    /\ canvas = [width |-> 0, height |-> 0]
    /\ Rejected
    /\ thrown = Some("Failed to create blob")

\* C21: options.breakpoints is in strictly descending order of width (so
\* no width is there twice), after every sequence of panel actions from
\* the default options.
C21_BreakpointsDescending ==
    \A i \in 1..(Len(options.breakpoints) - 1) :
        options.breakpoints[i].width > options.breakpoints[i + 1].width

\* Small Mobile, which the default options leave out, has been added and
\* stands last; Tablet has been taken out.
C21_Witness ==
    /\ Len(options.breakpoints) = 5
    /\ options.breakpoints[1].width = 3840
    /\ options.breakpoints[4].width = 768
    /\ options.breakpoints[5].width = 480

Extensions(o) == {o.formats[i].extension : i \in 1..Len(o.formats)}

\* C22: no two entries of options.formats have the same extension, and
\* toggling any format twice gives the selected extensions back.
C22_FormatsUnique ==
    /\ \A i, j \in 1..Len(options.formats) :
          i # j => options.formats[i].extension # options.formats[j].extension
    /\ \A formatIndex \in 1..Len(IMAGE_FORMATS) :
          ~FormatDisabled(options, formatIndex) =>
              Extensions(HandleFormatToggle(HandleFormatToggle(options, formatIndex),
                                            formatIndex))
                  = Extensions(options)

\* AVIF has been toggled off and on again: it stands last.
C22_Witness ==
    /\ Len(options.formats) = 3
    /\ options.formats[1].extension = "webp"
    /\ options.formats[3].extension = "avif"

\* C27: while imageDimensions is known and the panel's effect has run,
\* every selected breakpoint's required width (doubled with includeRetina)
\* is within the image's width, whatever toggles came before.
C27_BreakpointsFitSource ==
    (imageDimensions # None /\ ~effectPending) =>
        \A i \in 1..Len(options.breakpoints) :
            RequiredWidth(options, options.breakpoints[i]) <= imageDimensions[1].width

\* A 1000 pixel wide image: retina has been switched off and Tablet,
\* which retina had ruled out, selected again.
C27_Witness ==
    /\ imageDimensions = Some([width |-> 1000, height |-> 1000])
    /\ ~effectPending
    /\ ~options.includeRetina
    /\ Len(options.breakpoints) >= 1
    /\ options.breakpoints[1].width = 768

\* C28: while the retina checkbox is disabled and shown unchecked (image
\* narrower than 960, the panel's effect run), options.includeRetina is
\* false.
C28_RetinaAsDisplayed ==
    (IsRetinaDisabled(imageDimensions) /\ ~effectPending) => ~options.includeRetina

\* C26: whenever isComplete is set, processedImages is not empty.
C26_CompleteHasDerivatives ==
    isComplete => processedImages # <<>>

\* C29: the names of the derivatives one processImage call returns are
\* pairwise distinct (the options' formats are unique by extension and
\* the breakpoints' widths distinct).
C29_NamesDistinct ==
    Fulfilled =>
        \A i, j \in 1..Len(settled.value) :
            i # j => settled.value[i].name # settled.value[j].name

\* A source narrower than both targets of a pair: two derivatives of the
\* same size under different names.
C29_Witness ==
    /\ Fulfilled
    /\ runFile = Some([width |-> 1000, height |-> 1000])
    /\ Len(settled.value) >= 2
    /\ settled.value[1].dimensions = settled.value[2].dimensions
    /\ settled.value[1].name # settled.value[2].name

\* C30: every derivative returned was encoded with the media type of the
\* format whose extension its name ends with.
C30_MediaTypeOfExtension ==
    Fulfilled =>
        \A i \in 1..Len(settled.value) :
            \A k \in 1..Len(IMAGE_FORMATS) :
                EndsWith(settled.value[i].name, "." \o IMAGE_FORMATS[k].extension)
                    => settled.value[i].blob.type = IMAGE_FORMATS[k].mimeType

\* C23: whenever isComplete is set and a file is selected, processedImages
\* holds the derivatives of a run on that file, however file selections
\* and removals interleave with the run.
C23_DerivativesOfSelected ==
    (isComplete /\ selectedFile # None) =>
        /\ runFile = selectedFile
        /\ Fulfilled
        /\ processedImages = settled.value

InFlight == pc \in {"loading", "encoding"}

\* A step that takes processImage from its start to its first await.
RunStarts ==
    /\ pc' = "loading"
    /\ pc # "loading" \/ runFile' # runFile \/ runOptions' # runOptions

\* C24: a processImage run is in flight only while isProcessing is set,
\* and no run starts while one is in flight, whatever selections,
\* removals and option changes come in between.
C24_OneRunInFlight ==
    /\ [](InFlight => isProcessing)
    /\ [][InFlight => ~RunStarts]_vars

\* A second run, started after the first has delivered its derivatives.
C24_Witness ==
    /\ pc = "loading"
    /\ isProcessing
    /\ processedImages # <<>>

\* A step in which a run in flight ends.
RunEnds == InFlight /\ pc' = "done"

\* C25: every run that starts ends, with isProcessing false and progress
\* null; isComplete is then true exactly if processImage fulfilled, and
\* after a rejection error is set and processedImages is as it was.
C25_RunEnds ==
    /\ isProcessing ~> (~isProcessing /\ progress = None)
    /\ [][RunEnds =>
            /\ ~isProcessing'
            /\ progress' = None
            /\ isComplete' <=> settled'.state = "fulfilled"
            /\ settled'.state = "rejected" =>
                   /\ error' = "Failed to process images. Please try again."
                   /\ processedImages' = processedImages]_vars

\* A run has ended in failure after an earlier one had delivered: the
\* earlier derivatives are still there, without isComplete.
C25_Witness ==
    /\ pc = "done"
    /\ Rejected
    /\ ~isProcessing
    /\ progress = None
    /\ error # ""
    /\ ~isComplete
    /\ processedImages # <<>>
====
